---- MODULE Spec2Model ----
(***************************************************************************)
(* Job / payment orchestration of the Masumi agentic service wrapper       *)
(* (src/main.py): the in-memory job store `jobs`, the live-monitor          *)
(* registry `payment_instances`, and the three coroutines that touch them:  *)
(* start_job, handle_payment_status and get_status.  Every `await` on the   *)
(* payment adapter or on the work executor is a suspension point at which   *)
(* the other coroutines of the event loop may run.                          *)
(***************************************************************************)
EXTENDS Integers, Sequences, FiniteSets, Bags, TLC

\* ------------------------------------------------------------------ bounds
MaxJobs == 2          \* job ids (uuid4 values) the service may hand out
MaxDeliveries == 2    \* payment-confirmation callbacks the adapter delivers in all
MaxQueries == 1       \* status queries the clients send in all
MaxUrlTail == 2       \* characters after the scheme of a url given to validate_url
MaxEchoItems == 2     \* echo_agent.py: items in the input_data list of a request
MaxEchoQueries == 2   \* echo_agent.py: status queries the clients send in all
MaxTextLen == 3       \* agentic_service.py: characters of an input_string
MaxTime == 2          \* the variants with timestamps: readings of the wall clock

JobIds == 1..MaxJobs

\* ------------------------------------------------------------------ values
\* An optional Python value: None is the empty tuple, a value x is <<x>>
None == <<>>
Some(x) == <<x>>
\* None where the other values are strings (a payment_status)
NoStatus == "None"
Hello == <<"H", "e", "l", "l", "o">>
InputTexts == {Hello}
\* the request's input_data converted to a dict (main.py:183)
InputDicts == {[input_string |-> t] : t \in InputTexts} \cup {[other_field |-> <<"a", "b">>]}

RECURSIVE Reverse(_)
Reverse(s) == IF s = <<>> THEN <<>> ELSE Append(Reverse(Tail(s)), Head(s))

\* dict.get("input_string", "")
GetInputString(d) == IF "input_string" \in DOMAIN d THEN d.input_string ELSE <<>>

\* ServiceResult(original_text, reversed_text)
ServiceResult(original_text, reversed_text) ==
    [original_text |-> original_text, reversed_text |-> reversed_text, raw |-> reversed_text]

\* mutant: the text is returned as it came, not reversed
execute_task_echo(input_data) ==
    LET text == GetInputString(input_data)
    IN  ServiceResult(text, text)

\* mutant: the result carries the reversed text as the original too
execute_task_forgets_original(input_data) ==
    LET text == GetInputString(input_data)
    IN  ServiceResult(Reverse(text), Reverse(text))

\* AgenticService.execute_task: text[::-1]
execute_task(input_data) ==
    LET text == GetInputString(input_data)
    IN  ServiceResult(text, Reverse(text))

\* what the adapter's create_payment_request returns as blockchainIdentifier,
\* and what cuid2 generates, for the request that was given job id j
PaymentIdOf(j) == <<"payment", j>>
PurchaserIdOf(j) == <<"cuid", j>>

\* outcomes of payment.check_payment_status(): a response whose data.status is
\* one of these (NoStatus: the field is missing), or an exception: a
\* ValueError, a timeout (TimeoutError is an OSError, not a ValueError) or any
\* other exception
AdapterStatuses == {"pending", NoStatus}
AdapterErrors == {"ValueError", "TimeoutError", "Exception"}
CheckOutcomes == AdapterStatuses \cup AdapterErrors

\* ------------------------------------------------------------------ settings
\* Python strings are sequences of characters
Whitespace == {" "}
RECURSIVE LStrip(_)
LStrip(s) == IF s # <<>> /\ Head(s) \in Whitespace THEN LStrip(Tail(s)) ELSE s
RECURSIVE RStrip(_)
RStrip(s) == IF s # <<>> /\ s[Len(s)] \in Whitespace THEN RStrip(SubSeq(s, 1, Len(s) - 1)) ELSE s
\* str.strip()
Strip(s) == RStrip(LStrip(s))
\* str.startswith(p)
StartsWith(s, p) == Len(s) >= Len(p) /\ SubSeq(s, 1, Len(p)) = p
\* sub in s
Contains(s, sub) == \E i \in 1..(Len(s) - Len(sub) + 1) : SubSeq(s, i, i + Len(sub) - 1) = sub
UpperCase == <<"A", "B", "C", "D", "E", "F", "G", "H", "I", "J", "K", "L", "M", "N", "O", "P", "Q", "R", "S", "T", "U", "V", "W", "X", "Y", "Z">>
LowerCase == <<"a", "b", "c", "d", "e", "f", "g", "h", "i", "j", "k", "l", "m", "n", "o", "p", "q", "r", "s", "t", "u", "v", "w", "x", "y", "z">>
LowerChar(c) ==
    IF \E i \in 1..Len(UpperCase) : UpperCase[i] = c
    THEN LowerCase[CHOOSE i \in 1..Len(UpperCase) : UpperCase[i] = c]
    ELSE c
\* str.lower()
Lower(s) == [i \in 1..Len(s) |-> LowerChar(s[i])]

http == <<"h", "t", "t", "p", ":", "/", "/">>
https == <<"h", "t", "t", "p", "s", ":", "/", "/">>
\* urlparse(url).netloc of a url that starts with http:// or https://: what
\* follows the two slashes, up to the first "/", "?" or "#"
AfterScheme(url) == IF StartsWith(url, https) THEN SubSeq(url, Len(https) + 1, Len(url))
                    ELSE SubSeq(url, Len(http) + 1, Len(url))
RECURSIVE UpToDelimiter(_)
UpToDelimiter(s) ==
    IF s = <<>> \/ Head(s) \in {"/", "?", "#"} THEN <<>>
    ELSE <<Head(s)>> \o UpToDelimiter(Tail(s))
netloc(url) == UpToDelimiter(AfterScheme(url))
\* urlsplit raises ValueError("Invalid IPv6 URL") on an unbalanced bracket
UrlparseRaises(url) ==
    LET n == netloc(url)
        has(c) == \E i \in 1..Len(n) : n[i] = c
    IN  has("[") # has("]")

\* main.py:32-49: the error message (name followed by what is wrong), or the
\* empty string
validate_url(url, name) ==
    IF url = <<>> THEN <<name, "is not set">>
    ELSE IF ~(StartsWith(url, http) \/ StartsWith(url, https))
         THEN <<name, "must start with 'https://' or 'http://'", url>>
    ELSE IF UrlparseRaises(url) \/ netloc(url) = <<>>
         THEN <<name, "is not a valid URL format", url>>
    ELSE <<>>

REPLACE == <<"R", "E", "P", "L", "A", "C", "E">>
Digits == {"0", "1", "2", "3", "4", "5", "6", "7", "8", "9"}
\* int(s) returns: optional sign and decimal digits, surrounding whitespace allowed
IsIntLiteral(s) ==
    LET t == Strip(s)
        u == IF t # <<>> /\ Head(t) \in {"+", "-"} THEN Tail(t) ELSE t
    IN  u # <<>> /\ \A i \in 1..Len(u) : u[i] \in Digits
\* str(e) of the ValueError that int(s) raises otherwise
IntError(s) == <<"i", "n", "v", "a", "l", "i", "d", " ", "l", "i", "t", "e", "r", "a", "l", " ", "f", "o", "r", " ", "i", "n", "t", "(", ")", " ", "w", "i", "t", "h", " ", "b", "a", "s", "e", " ", "1", "0", ":", " ", "'">> \o s \o <<"'">>
NetworkError == <<"N", "e", "t", "w", "o", "r", "k", " ", "e", "r", "r", "o", "r">>
payment == <<"p", "a", "y", "m", "e", "n", "t">>
\* what the payment adapter may raise from create_payment_request and
\* start_status_monitoring
AdapterExceptions ==
    {[kind |-> "Exception", message |-> NetworkError],
     [kind |-> "Exception", message |-> <<"P", "a", "y", "m", "e", "n", "t", " ", "s", "e", "r", "v", "i", "c", "e", " ", "e", "r", "r", "o", "r">>],
     [kind |-> "Exception", message |-> <<"t", "i", "m", "e", "d", " ", "o", "u", "t">>],
     [kind |-> "ValueError", message |-> <<"b", "a", "d", " ", "r", "e", "s", "p", "o", "n", "s", "e">>],
     [kind |-> "KeyError", message |-> <<"'", "d", "a", "t", "a", "'">>]}
PAYMENT_AMOUNT == <<"P", "A", "Y", "M", "E", "N", "T", "_", "A", "M", "O", "U", "N", "T">>

\* the process environment, read by load_dotenv / os.getenv: fixed while the
\* service runs
ValidEnv ==
    [AGENT_IDENTIFIER |-> <<"a", "g", "e", "n", "t">>,
     PAYMENT_SERVICE_URL |-> <<"h", "t", "t", "p", "s", ":", "/", "/", "a">>,
     PAYMENT_API_KEY |-> <<"k">>,
     SELLER_VKEY |-> <<"v">>,
     PAYMENT_AMOUNT |-> <<"1", "0">>]
\* the valid environment, and every environment with one setting missing or
\* malformed
Environments ==
    {ValidEnv}
    \cup {[ValidEnv EXCEPT !.AGENT_IDENTIFIER = v] : v \in {<<>>, <<" ">>, REPLACE}}
    \cup {[ValidEnv EXCEPT !.PAYMENT_SERVICE_URL = v] : v \in {<<>>, <<"f", "t", "p", ":", "/", "/", "a">>, https}}
    \cup {[ValidEnv EXCEPT !.PAYMENT_API_KEY = <<>>]}
    \cup {[ValidEnv EXCEPT !.SELLER_VKEY = <<>>]}
    \cup {[ValidEnv EXCEPT !.PAYMENT_AMOUNT = <<"x">>]}

\* ------------------------------------------------------------------ state
VARIABLES
    env,                \* main.py:20-26, 154, 200, 246  the environment settings
    jobs,               \* main.py:98   job_id -> job record
    payment_instances,  \* main.py:99   job_id -> Payment object
    start,              \* per job id: where its start_job coroutine is / its HTTP answer
    handlers,           \* the bag of suspended handle_payment_status coroutines
    queries,            \* the bag of job ids of get_status coroutines suspended in check_payment_status
    nqueries,           \* status queries received so far
    resp,               \* the HTTP response the last step sent, if it sent one
    createCount,        \* per job id: calls of payment.create_payment_request
    delivered,          \* per job id: calls of its payment_callback by the adapter
    execCount,          \* per job id: invocations of execute_agentic_task
    finalizeCount,      \* per job id: calls of payment.complete_payment
    stopCount,          \* per job id: calls of payment.stop_status_monitoring
    now                 \* the wall clock that datetime.now() reads (the variants that keep timestamps)

vars == <<env, jobs, payment_instances, start, handlers, queries, nqueries, resp,
          createCount, delivered, execCount, finalizeCount, stopCount, now>>

\* a start_job coroutine: its position (or its HTTP status once answered) and
\* its local input_data_dict
Starter(pc, input_data_dict) == [pc |-> pc, input_data |-> input_data_dict]

\* the step sent no HTTP response
NoResponse == [op |-> "none"]
\* HTTPException(status_code, detail); detail is the fixed text its message
\* starts with
HTTPException(status_code, detail) == [status_code |-> status_code, detail |-> detail]
\* start_job's answer to the request that was given job id j: on 200 the body's
\* job_id and payment_id, otherwise the HTTPException's status and detail
StartResponse(code, j) ==
    [op |-> "start_job", code |-> code, detail |-> "", job_id |-> j,
     payment_id |-> IF code = "200" THEN Some(PaymentIdOf(j)) ELSE None]
StartError(exc, j) ==
    [op |-> "start_job", code |-> exc.status_code, detail |-> exc.detail, job_id |-> j,
     payment_id |-> None]

Init ==
    /\ env \in Environments
    /\ jobs = <<>>
    /\ payment_instances = <<>>
    /\ start = [j \in JobIds |-> Starter("unused", None)]
    /\ handlers = EmptyBag
    /\ queries = EmptyBag
    /\ nqueries = 0
    /\ resp = NoResponse
    /\ createCount = [j \in JobIds |-> 0]
    /\ delivered = [j \in JobIds |-> 0]
    /\ execCount = [j \in JobIds |-> 0]
    /\ finalizeCount = [j \in JobIds |-> 0]
    /\ stopCount = [j \in JobIds |-> 0]
    /\ now = 0

\* dict helpers
Put(d, k, v) == [x \in DOMAIN d \cup {k} |-> IF x = k THEN v ELSE d[x]]
Del(d, k) == [x \in DOMAIN d \ {k} |-> d[x]]

\* ------------------------------------------------------------------ start_job
\* main.py:151  job_id = str(uuid.uuid4()): a fresh identifier
FreshJobId(j) ==
    /\ start[j].pc = "unused"
    /\ \A k \in JobIds : k < j => start[k].pc # "unused"

\* main.py:212-219: the Payment object of a request; payment_ids is filled at
\* line 224
Payment(agent_identifier, identifier_from_purchaser, input_data) ==
    [agent_identifier |-> agent_identifier,
     identifier_from_purchaser |-> identifier_from_purchaser,
     input_data |-> input_data,
     payment_ids |-> {}]

\* mutant: the record is stored as already running
NewJobRecordRunning(j, input_data_dict) ==
    [status |-> "running",
     payment_status |-> "pending",
     payment_id |-> PaymentIdOf(j),
     input_data |-> input_data_dict,
     result |-> None,
     identifier_from_purchaser |-> PurchaserIdOf(j),
     error |-> None]

\* main.py:228-235
NewJobRecord(j, input_data_dict) ==
    [status |-> "awaiting_payment",
     payment_status |-> "pending",
     payment_id |-> PaymentIdOf(j),
     input_data |-> input_data_dict,
     result |-> None,
     identifier_from_purchaser |-> PurchaserIdOf(j),
     error |-> None]

\* main.py:153-176: the settings checked before anything else
ConfigurationError ==
    LET agent_identifier == Strip(env.AGENT_IDENTIFIER)
    IN  IF agent_identifier = <<>> \/ agent_identifier = REPLACE
        THEN Some(HTTPException("500", "Server configuration error"))
        ELSE IF validate_url(env.PAYMENT_SERVICE_URL, "PAYMENT_SERVICE_URL") # <<>>
        THEN Some(HTTPException("500", "Server configuration error"))
        ELSE IF env.PAYMENT_API_KEY = <<>>
        THEN Some(HTTPException("500", "Server configuration error"))
        ELSE None

\* main.py:272-303: what the except clauses of start_job make of an exception
\* e = [kind, message] raised inside the try block
StartJobExcept(e) ==
    IF e.kind = "ValueError"
    THEN IF Contains(e.message, PAYMENT_AMOUNT)
         THEN HTTPException("500", "Server configuration error")
         ELSE HTTPException("400", "Invalid input data")
    ELSE IF e.kind = "KeyError"
    THEN HTTPException("400", "Missing required field")
    ELSE IF Contains(e.message, NetworkError) \/ Contains(Lower(e.message), payment)
         THEN HTTPException("502", "Payment service unavailable")
         ELSE HTTPException("500", "Internal server error")

\* mutant: the request is not checked for input_string
RejectionIgnoresInput(input_data_dict) ==
    IF ConfigurationError # None THEN ConfigurationError
    ELSE IF ~IsIntLiteral(env.PAYMENT_AMOUNT)
    THEN Some(StartJobExcept([kind |-> "ValueError", message |-> IntError(env.PAYMENT_AMOUNT)]))
    ELSE None

\* main.py:153-200: the HTTPException that ends the request before the payment
\* request is made, if there is one
Rejection(input_data_dict) ==
    IF ConfigurationError # None THEN ConfigurationError
    ELSE IF "input_string" \notin DOMAIN input_data_dict
    THEN Some(HTTPException("400", "Bad Request"))
    ELSE IF ~IsIntLiteral(env.PAYMENT_AMOUNT)
    THEN Some(StartJobExcept([kind |-> "ValueError", message |-> IntError(env.PAYMENT_AMOUNT)]))
    ELSE None

\* main.py:146-222: the settings and the request are validated and the
\* coroutine suspends in payment.create_payment_request()
StartJob(j, input_data_dict) ==
    /\ FreshJobId(j)
    /\ IF Rejection(input_data_dict) # None
       THEN /\ start' = [start EXCEPT ![j] = Starter("done", None)]
            /\ resp' = StartError(Rejection(input_data_dict)[1], j)
            /\ UNCHANGED createCount
       ELSE /\ start' = [start EXCEPT ![j] = Starter("creating", Some(input_data_dict))]
            /\ resp' = NoResponse
            /\ createCount' = [createCount EXCEPT ![j] = @ + 1]
    /\ UNCHANGED <<jobs, payment_instances, handlers, queries, nqueries,
                   delivered, execCount, finalizeCount, stopCount, env, now>>

\* mutant: the record is stored but the Payment object is not registered
CreateReturnsWithoutHandle(j) ==
    /\ start[j].pc = "creating"
    /\ jobs' = Put(jobs, j, NewJobRecord(j, start[j].input_data[1]))
    /\ start' = [start EXCEPT ![j] = Starter("monitoring", None)]
    /\ resp' = NoResponse
    /\ UNCHANGED <<payment_instances, handlers, queries, nqueries, delivered, execCount,
                   finalizeCount, stopCount, env, now, createCount>>

\* mutant: the payment id is not added to the Payment object
CreateReturnsForgetsPaymentId(j) ==
    /\ start[j].pc = "creating"
    /\ jobs' = Put(jobs, j, NewJobRecord(j, start[j].input_data[1]))
    /\ payment_instances' =
           Put(payment_instances, j,
               Payment(Strip(env.AGENT_IDENTIFIER), PurchaserIdOf(j), start[j].input_data[1]))
    /\ start' = [start EXCEPT ![j] = Starter("monitoring", None)]
    /\ resp' = NoResponse
    /\ UNCHANGED <<handlers, queries, nqueries, delivered, execCount, finalizeCount,
                   stopCount, env, now, createCount>>

\* main.py:222-243: the payment request came back; the record and the Payment
\* object are stored with no await in between, and the coroutine suspends in
\* payment.start_status_monitoring(payment_callback)
CreateReturns(j) ==
    /\ start[j].pc = "creating"
    /\ jobs' = Put(jobs, j, NewJobRecord(j, start[j].input_data[1]))
    /\ payment_instances' =
           Put(payment_instances, j,
               [Payment(Strip(env.AGENT_IDENTIFIER), PurchaserIdOf(j), start[j].input_data[1])
                   EXCEPT !.payment_ids = {PaymentIdOf(j)}])
    /\ start' = [start EXCEPT ![j] = Starter("monitoring", None)]
    /\ resp' = NoResponse
    /\ UNCHANGED <<handlers, queries, nqueries, delivered, execCount, finalizeCount, stopCount, env, now, createCount>>

\* main.py:222, 272-303: create_payment_request raised e
CreateRaises(j, e) ==
    /\ start[j].pc = "creating"
    /\ start' = [start EXCEPT ![j] = Starter("done", None)]
    /\ resp' = StartError(StartJobExcept(e), j)
    /\ UNCHANGED <<jobs, payment_instances, handlers, queries, nqueries,
                   delivered, execCount, finalizeCount, stopCount, env, now, createCount>>

\* main.py:243-271: start_status_monitoring returned; SELLER_VKEY is read and
\* the response is built
MonitoringReturns(j) ==
    /\ start[j].pc = "monitoring"
    /\ start' = [start EXCEPT ![j] = Starter("done", None)]
    /\ resp' = IF env.SELLER_VKEY = <<>>
               THEN StartError(HTTPException("500", "Server configuration error"), j)
               ELSE StartResponse("200", j)
    /\ UNCHANGED <<jobs, payment_instances, handlers, queries, nqueries,
                   delivered, execCount, finalizeCount, stopCount, env, now, createCount>>

\* main.py:243, 272-303: start_status_monitoring raised e; the record and the
\* Payment object stored at 228-241 stay where they are
MonitoringRaises(j, e) ==
    /\ start[j].pc = "monitoring"
    /\ start' = [start EXCEPT ![j] = Starter("done", None)]
    /\ resp' = StartError(StartJobExcept(e), j)
    /\ UNCHANGED <<jobs, payment_instances, handlers, queries, nqueries,
                   delivered, execCount, finalizeCount, stopCount, env, now, createCount>>

\* ------------------------------------------------------------------ handle_payment_status
\* mutant: the end of a handler stops and discards every Payment object
StopAndDiscardAll(j) ==
    IF j \in DOMAIN payment_instances
    THEN /\ stopCount' = [k \in JobIds |->
                             IF k \in DOMAIN payment_instances
                             THEN stopCount[k] + 1 ELSE stopCount[k]]
         /\ payment_instances' = <<>>
    ELSE UNCHANGED <<payment_instances, stopCount>>

\* mutant: stop_status_monitoring is called without looking for the handle
StopAlways(j) ==
    /\ stopCount' = [stopCount EXCEPT ![j] = @ + 1]
    /\ payment_instances' = Del(payment_instances, j)

\* main.py:333-336 and 342-345: if job_id in payment_instances: stop, del
StopAndDiscard(j) ==
    IF j \in DOMAIN payment_instances
    THEN /\ stopCount' = [stopCount EXCEPT ![j] = @ + 1]
         /\ payment_instances' = Del(payment_instances, j)
    ELSE UNCHANGED <<payment_instances, stopCount>>

\* str(e) of a caught exception: some error description
str(e) == "error description"

\* mutant: the except branch forgets to stop and discard the Payment object
FailJobKeepsMonitoring(j, e) ==
    /\ jobs' = [jobs EXCEPT ![j].status = "failed", ![j].error = Some(str(e))]
    /\ UNCHANGED <<payment_instances, stopCount>>

\* mutant: the except branch discards the record of the failed job
FailJobDiscardsRecord(j, e) ==
    /\ jobs' = Del(jobs, j)
    /\ StopAndDiscard(j)

\* main.py:337-345: the except branch
FailJob(j, e) ==
    /\ jobs' = [jobs EXCEPT ![j].status = "failed", ![j].error = Some(str(e))]
    /\ StopAndDiscard(j)

\* mutant: completing a job clears its input
CompleteJobClearsInput(j, result) ==
    /\ jobs' = [jobs EXCEPT ![j].status = "completed",
                            ![j].payment_status = "completed",
                            ![j].result = Some(result),
                            ![j].input_data = <<>>]
    /\ StopAndDiscard(j)

\* main.py:328-336: the end of the try block
CompleteJob(j, result) ==
    /\ jobs' = [jobs EXCEPT ![j].status = "completed",
                            ![j].payment_status = "completed",
                            ![j].result = Some(result)]
    /\ StopAndDiscard(j)

\* a handle_payment_status coroutine suspended at an await: the job it was
\* called for, where it is, and its locals input_data and result
Handler(j, pc, input_data, result) ==
    [job |-> j, pc |-> pc, input_data |-> input_data, result |-> result]

Suspended(pc) == {c \in BagToSet(handlers) : c.pc = pc}

\* callbacks delivered so far, over all jobs
RECURSIVE DeliveriesUpTo(_)
DeliveriesUpTo(n) == IF n = 0 THEN 0 ELSE delivered[n] + DeliveriesUpTo(n - 1)
Deliveries == DeliveriesUpTo(MaxJobs)

\* main.py:237-238, 308-319: payment_callback(payment_id) runs
\* handle_payment_status(job_id, payment_id) up to the await of the executor.
\* The closure exists once start_job has stored the record (main.py:237).
DeliverCallback(j) ==
    /\ j \in DOMAIN jobs
    /\ Deliveries < MaxDeliveries
    /\ jobs' = [jobs EXCEPT ![j].status = "running"]
    /\ handlers' = handlers (+) SetToBag({Handler(j, "executing", Some(jobs[j].input_data), None)})
    /\ delivered' = [delivered EXCEPT ![j] = @ + 1]
    /\ execCount' = [execCount EXCEPT ![j] = @ + 1]
    /\ resp' = NoResponse
    /\ UNCHANGED <<payment_instances, start, queries, nqueries, finalizeCount, stopCount, env, now, createCount>>

\* main.py:319-325: the executor returned; payment_instances[job_id] is looked
\* up (KeyError when the handle is gone) and complete_payment is awaited
ExecutorReturns(c) ==
    LET j == c.job
        result == execute_task(c.input_data[1])
    IN  /\ c \in Suspended("executing")
        /\ IF j \in DOMAIN payment_instances
           THEN /\ handlers' = (handlers (-) SetToBag({c}))
                                  (+) SetToBag({Handler(j, "finalizing", None, Some(result))})
                /\ finalizeCount' = [finalizeCount EXCEPT ![j] = @ + 1]
                /\ UNCHANGED <<jobs, payment_instances, stopCount>>
           ELSE /\ handlers' = handlers (-) SetToBag({c})
                /\ FailJob(j, "KeyError")
                /\ UNCHANGED finalizeCount
        /\ resp' = NoResponse
        /\ UNCHANGED <<start, queries, nqueries, delivered, execCount, env, now, createCount>>

\* mutant: the exception of the executor is swallowed and the job left as it is
ExecutorRaisesSwallowed(c) ==
    /\ c \in Suspended("executing")
    /\ handlers' = handlers (-) SetToBag({c})
    /\ resp' = NoResponse
    /\ UNCHANGED <<jobs, payment_instances, stopCount, start, queries, nqueries,
                   delivered, execCount, finalizeCount, env, now, createCount>>

\* main.py:319, 337-345: the executor raised
ExecutorRaises(c) ==
    /\ c \in Suspended("executing")
    /\ handlers' = handlers (-) SetToBag({c})
    /\ FailJob(c.job, "ExecutorError")
    /\ resp' = NoResponse
    /\ UNCHANGED <<start, queries, nqueries, delivered, execCount, finalizeCount, env, now, createCount>>

\* main.py:325-336: complete_payment returned
FinalizeReturns(c) ==
    /\ c \in Suspended("finalizing")
    /\ handlers' = handlers (-) SetToBag({c})
    /\ CompleteJob(c.job, c.result[1])
    /\ resp' = NoResponse
    /\ UNCHANGED <<start, queries, nqueries, delivered, execCount, finalizeCount, env, now, createCount>>

\* main.py:325, 337-345: complete_payment raised
FinalizeRaises(c) ==
    /\ c \in Suspended("finalizing")
    /\ handlers' = handlers (-) SetToBag({c})
    /\ FailJob(c.job, "PaymentError")
    /\ resp' = NoResponse
    /\ UNCHANGED <<start, queries, nqueries, delivered, execCount, finalizeCount, env, now, createCount>>

\* main.py:337-344: the awaited call (the executor or complete_payment) raised
\* and, in the except branch, stop_status_monitoring() raises too: the
\* exception leaves the handler before `del`
HandlerFailsStopRaises(c) ==
    /\ c \in BagToSet(handlers)
    /\ c.job \in DOMAIN payment_instances
    /\ handlers' = handlers (-) SetToBag({c})
    /\ jobs' = [jobs EXCEPT ![c.job].status = "failed", ![c.job].error = Some(str("StopError"))]
    /\ stopCount' = [stopCount EXCEPT ![c.job] = @ + 1]
    /\ resp' = NoResponse
    /\ UNCHANGED <<payment_instances, start, queries, nqueries, delivered, execCount,
                   finalizeCount, env, now, createCount>>

\* main.py:325-345: complete_payment returned and lines 329-331 ran, then
\* stop_status_monitoring() raises at line 335; the except branch sets failed and
\* calls it again at line 344, where it raises again or returns
FinalizeReturnsStopRaises(c, again) ==
    /\ c \in Suspended("finalizing")
    /\ c.job \in DOMAIN payment_instances
    /\ handlers' = handlers (-) SetToBag({c})
    /\ jobs' = [jobs EXCEPT ![c.job].status = "failed",
                            ![c.job].payment_status = "completed",
                            ![c.job].result = Some(c.result[1]),
                            ![c.job].error = Some(str("StopError"))]
    /\ stopCount' = [stopCount EXCEPT ![c.job] = @ + 2]
    /\ payment_instances' = IF again THEN payment_instances
                            ELSE Del(payment_instances, c.job)
    /\ resp' = NoResponse
    /\ UNCHANGED <<start, queries, nqueries, delivered, execCount,
                   finalizeCount, env, now, createCount>>

\* ------------------------------------------------------------------ get_status
\* main.py:374-382
StatusResponse(jb, j) ==
    [op |-> "status", code |-> "200", job_id |-> j, status |-> jb[j].status,
     payment_status |-> jb[j].payment_status,
     result |-> IF jb[j].result # None THEN Some(jb[j].result[1].raw) ELSE None]

\* mutant: an unknown id is answered with an empty record
EmptyRecord(j) ==
    [op |-> "status", code |-> "200", job_id |-> j, status |-> "unknown",
     payment_status |-> "unknown", result |-> None]

\* main.py:354-356
NotFound(j) == [op |-> "status", code |-> "404", job_id |-> j]

\* mutant: whatever the adapter answers, the refresh stores unknown
RefreshedStatusIgnoresAdapter(outcome) == "unknown"

\* main.py:364-371: what the refresh stores for each outcome of the adapter
\* call: `except ValueError` first, then `except Exception`
RefreshedStatus(outcome) ==
    CASE outcome = "ValueError" -> "unknown"
      [] outcome \in AdapterErrors \ {"ValueError"} -> "error"
      [] OTHER -> outcome

\* mutant: the first status poll completes an awaiting job without any payment
GetStatusAutoCompletes(j) ==
    /\ nqueries < MaxQueries
    /\ nqueries' = nqueries + 1
    /\ j \in DOMAIN jobs
    /\ jobs' = IF jobs[j].status = "awaiting_payment"
               THEN [jobs EXCEPT ![j].status = "completed"]
               ELSE jobs
    /\ resp' = StatusResponse(jobs', j)
    /\ UNCHANGED <<payment_instances, start, handlers, queries,
                   delivered, execCount, finalizeCount, stopCount, env, now, createCount>>

\* main.py:350-363, 374-382: 404 for an unknown id; with no Payment object the
\* record is returned at once; otherwise the coroutine suspends in
\* check_payment_status()
GetStatus(j) ==
    /\ nqueries < MaxQueries
    /\ nqueries' = nqueries + 1
    /\ IF j \notin DOMAIN jobs
       THEN resp' = NotFound(j) /\ UNCHANGED queries
       ELSE IF j \in DOMAIN payment_instances
            THEN queries' = queries (+) SetToBag({j}) /\ resp' = NoResponse
            ELSE resp' = StatusResponse(jobs, j) /\ UNCHANGED queries
    /\ UNCHANGED <<jobs, payment_instances, start, handlers,
                   delivered, execCount, finalizeCount, stopCount, env, now, createCount>>

\* mutant: a refresh that sees the payment no longer pending starts the job
RefreshReturnsAdvances(j, outcome) ==
    /\ BagIn(j, queries)
    /\ queries' = queries (-) SetToBag({j})
    /\ jobs' = [jobs EXCEPT ![j].payment_status = RefreshedStatus(outcome),
                            ![j].status = IF outcome = "pending" THEN @ ELSE "running"]
    /\ resp' = StatusResponse(jobs', j)
    /\ UNCHANGED <<payment_instances, start, handlers, nqueries,
                   delivered, execCount, finalizeCount, stopCount, env, now, createCount>>

\* mutant: an exception of the adapter call fails the query
RefreshReturnsFailsOnError(j, outcome) ==
    /\ BagIn(j, queries)
    /\ queries' = queries (-) SetToBag({j})
    /\ IF outcome \in AdapterErrors
       THEN jobs' = jobs /\ resp' = [op |-> "status", code |-> "500", job_id |-> j]
       ELSE /\ jobs' = [jobs EXCEPT ![j].payment_status = RefreshedStatus(outcome)]
            /\ resp' = StatusResponse(jobs', j)
    /\ UNCHANGED <<payment_instances, start, handlers, nqueries,
                   delivered, execCount, finalizeCount, stopCount, env, now, createCount>>

\* main.py:363-382: check_payment_status() returned or raised
RefreshReturns(j, outcome) ==
    /\ BagIn(j, queries)
    /\ queries' = queries (-) SetToBag({j})
    /\ jobs' = [jobs EXCEPT ![j].payment_status = RefreshedStatus(outcome)]
    /\ resp' = StatusResponse(jobs', j)
    /\ UNCHANGED <<payment_instances, start, handlers, nqueries,
                   delivered, execCount, finalizeCount, stopCount, env, now, createCount>>

\* ------------------------------------------------------------------ specification
Next ==
    \/ \E j \in JobIds, d \in InputDicts : StartJob(j, d)
    \/ \E j \in JobIds : CreateReturns(j)
    \/ \E j \in JobIds, e \in AdapterExceptions : CreateRaises(j, e)
    \/ \E j \in JobIds : MonitoringReturns(j)
    \/ \E j \in JobIds, e \in AdapterExceptions : MonitoringRaises(j, e)
    \/ \E j \in JobIds : DeliverCallback(j)
    \/ \E c \in BagToSet(handlers) : ExecutorReturns(c)
    \/ \E c \in BagToSet(handlers) : ExecutorRaises(c)
    \/ \E c \in BagToSet(handlers) : FinalizeReturns(c)
    \/ \E c \in BagToSet(handlers) : FinalizeRaises(c)
    \/ \E j \in JobIds : GetStatus(j)
    \/ \E j \in JobIds, o \in CheckOutcomes : RefreshReturns(j, o)

Spec == Init /\ [][Next]_vars

\* ------------------------------------------------------------------ validate_url alone
\* the urls validate_url is applied to: nothing or a scheme, followed by up to
\* MaxUrlTail characters
ftp == <<"f", "t", "p", ":", "/", "/">>
UrlPrefixes == {<<>>, http, https, ftp}
UrlAlphabet == {"a", ":", "/", "@", "[", "?"}
RECURSIVE UrlTails(_)
UrlTails(n) ==
    IF n = 0 THEN {<<>>}
    ELSE UrlTails(n - 1) \cup {Append(t, c) : t \in UrlTails(n - 1), c \in UrlAlphabet}
Urls == {p \o t : p \in UrlPrefixes, t \in UrlTails(MaxUrlTail)}
UrlNames == {"TEST_URL", "PAYMENT_SERVICE_URL"}

InitUrl ==
    /\ env \in {[ValidEnv EXCEPT !.PAYMENT_SERVICE_URL = u] : u \in Urls}
    /\ jobs = <<>>
    /\ payment_instances = <<>>
    /\ start = [j \in JobIds |-> Starter("unused", None)]
    /\ handlers = EmptyBag
    /\ queries = EmptyBag
    /\ nqueries = 0
    /\ resp = NoResponse
    /\ createCount = [j \in JobIds |-> 0]
    /\ delivered = [j \in JobIds |-> 0]
    /\ execCount = [j \in JobIds |-> 0]
    /\ finalizeCount = [j \in JobIds |-> 0]
    /\ stopCount = [j \in JobIds |-> 0]
    /\ now = 0

\* main.py:32-49: one call validate_url(url, name); resp holds what it returned
ValidateUrl(name) ==
    /\ resp' = [op |-> "validate_url", url |-> env.PAYMENT_SERVICE_URL, name |-> name,
                result |-> validate_url(env.PAYMENT_SERVICE_URL, name)]
    /\ UNCHANGED <<env, now, jobs, payment_instances, start, handlers, queries, nqueries,
                   createCount, delivered, execCount, finalizeCount, stopCount>>

NextUrl == \E name \in UrlNames : ValidateUrl(name)

SpecUrl == InitUrl /\ [][NextUrl]_vars

\* ------------------------------------------------------------------ echo_agent.py
\* echo_agent.py:16-21  request.input_data: a list of InputData(key, value)
InputData(key, value) == [key |-> key, value |-> value]
EchoItems == {InputData(k, v) : k \in {"text", "note"}, v \in {<<>>, <<"h", "i">>}}
RECURSIVE EchoLists(_)
EchoLists(n) ==
    IF n = 0 THEN {<<>>}
    ELSE EchoLists(n - 1) \cup {Append(l, i) : l \in EchoLists(n - 1), i \in EchoItems}
EchoRequests == EchoLists(MaxEchoItems)

\* " ".join(str(item.value) for item in items)
RECURSIVE JoinValues(_)
JoinValues(items) ==
    IF items = <<>> THEN <<>>
    ELSE IF Len(items) = 1 THEN items[1].value
    ELSE items[1].value \o <<" ">> \o JoinValues(Tail(items))

\* echo_agent.py:75-83: the value of the first item whose key is "text", or,
\* when that gives nothing, all values joined by blanks
RECURSIVE FirstText(_)
FirstText(items) ==
    IF items = <<>> THEN <<>>
    ELSE IF items[1].key = "text" THEN items[1].value
    ELSE FirstText(Tail(items))
EchoInputText(items) ==
    IF FirstText(items) # <<>> THEN FirstText(items) ELSE JoinValues(items)

\* echo_agent.py:122  f"Echo: {job['input_text']}"
Echo(input_text) == <<"E", "c", "h", "o", ":", " ">> \o input_text

\* datetime.now(): a reading of the wall clock, not before the last one
ClockReadings == {t \in {now, now + 1} : t <= MaxTime}

InitEcho ==
    /\ env = ValidEnv
    /\ jobs = <<>>
    /\ payment_instances = <<>>
    /\ start = [j \in JobIds |-> Starter("unused", None)]
    /\ handlers = EmptyBag
    /\ queries = EmptyBag
    /\ nqueries = 0
    /\ resp = NoResponse
    /\ createCount = [j \in JobIds |-> 0]
    /\ delivered = [j \in JobIds |-> 0]
    /\ execCount = [j \in JobIds |-> 0]
    /\ finalizeCount = [j \in JobIds |-> 0]
    /\ stopCount = [j \in JobIds |-> 0]
    /\ now = 0

\* echo_agent.py:63-103  start_job: jobs is echo_agent's jobs_db
EchoStartJob(j, input_data, t) ==
    /\ j \in JobIds \ DOMAIN jobs
    /\ \A k \in JobIds : k < j => k \in DOMAIN jobs
    /\ t \in ClockReadings
    /\ jobs' = Put(jobs, j,
                   [job_id |-> j,
                    payment_id |-> PaymentIdOf(j),
                    status |-> "awaiting_payment",
                    input_data |-> input_data,
                    input_text |-> EchoInputText(input_data),
                    result |-> None,
                    created_at |-> now,
                    updated_at |-> t])
    /\ now' = t
    /\ resp' = [op |-> "start_job", code |-> "200", job_id |-> j, payment_id |-> PaymentIdOf(j)]
    /\ UNCHANGED <<env, payment_instances, start, handlers, queries, nqueries,
                   createCount, delivered, execCount, finalizeCount, stopCount>>

\* mutant: a status query leaves a job that awaits payment as it is
EchoGetStatusGated(j, t) ==
    /\ nqueries < MaxEchoQueries
    /\ nqueries' = nqueries + 1
    /\ t = now
    /\ resp' = IF j \notin DOMAIN jobs
               THEN [op |-> "status", code |-> "404", job_id |-> j]
               ELSE [op |-> "status", code |-> "200", job_id |-> jobs[j].job_id,
                     status |-> jobs[j].status, result |-> jobs[j].result]
    /\ UNCHANGED <<env, jobs, now, payment_instances, start, handlers, queries,
                   createCount, delivered, execCount, finalizeCount, stopCount>>

\* echo_agent.py:105-137  get_status
EchoGetStatus(j, t) ==
    /\ nqueries < MaxEchoQueries
    /\ nqueries' = nqueries + 1
    /\ IF j \notin DOMAIN jobs
       THEN /\ t = now
            /\ resp' = [op |-> "status", code |-> "404", job_id |-> j]
            /\ UNCHANGED <<jobs, now>>
       ELSE /\ IF jobs[j].status = "awaiting_payment"
               THEN /\ t \in ClockReadings
                    /\ jobs' = [jobs EXCEPT ![j].status = "completed",
                                            ![j].result = Some(Echo(jobs[j].input_text)),
                                            ![j].updated_at = t]
                    /\ now' = t
               ELSE /\ t = now
                    /\ UNCHANGED <<jobs, now>>
            /\ resp' = [op |-> "status", code |-> "200", job_id |-> jobs'[j].job_id,
                        status |-> jobs'[j].status, result |-> jobs'[j].result]
    /\ UNCHANGED <<env, payment_instances, start, handlers, queries,
                   createCount, delivered, execCount, finalizeCount, stopCount>>

\* time passes between two requests
Tick ==
    /\ now < MaxTime
    /\ now' = now + 1
    /\ resp' = NoResponse
    /\ UNCHANGED <<env, jobs, payment_instances, start, handlers, queries, nqueries,
                   createCount, delivered, execCount, finalizeCount, stopCount>>

NextEcho ==
    \/ \E j \in JobIds, input_data \in EchoRequests, t \in 0..MaxTime : EchoStartJob(j, input_data, t)
    \/ \E j \in JobIds, t \in 0..MaxTime : EchoGetStatus(j, t)
    \/ Tick

SpecEcho == InitEcho /\ [][NextEcho]_vars

\* ------------------------------------------------------------------ archive/echo_agent_with_payments.py
\* values of the input_data dictionary (Dict[str, Any]): a string, or something
\* that is not a string; repr is str(value)
StrValue(s) == [type |-> "str", repr |-> s]
IntValue(s) == [type |-> "int", repr |-> s]
ArchInputs ==
    {[text |-> StrValue(<<"h", "i">>)],
     [text |-> IntValue(<<"5">>)],
     [note |-> StrValue(<<"h", "i">>)]}

\* bool(value) is False
Falsy(v) == v.repr = (IF v.type = "str" THEN <<>> ELSE <<"0">>)

\* echo_agent_with_payments.py:134-140  the text execute_echo_task works on:
\* input_data.get("text", ""), or, when that is empty, the values joined by
\* blanks (the dictionaries of ArchInputs have one value)
TaskText(input_data) ==
    LET text == IF "text" \in DOMAIN input_data THEN input_data.text ELSE StrValue(<<>>)
        only == CHOOSE k \in DOMAIN input_data : TRUE
    IN  IF Falsy(text) THEN StrValue(input_data[only].repr) ELSE text

\* echo_agent_with_payments.py:146  text[::-1] raises TypeError unless text is
\* a string
EchoTaskRaises(input_data) == TaskText(input_data).type # "str"

\* echo_agent_with_payments.py:131-147  execute_echo_task
execute_echo_task(input_data) ==
    <<"R", "e", "v", "e", "r", "s", "e", "d", ":", " ">> \o Reverse(TaskText(input_data).repr)

\* how a call of handle_payment_status ended: normally, or with the exception
\* that left it
CallbackEnded(j, raised) == [op |-> "handle_payment_status", job_id |-> j, raised |-> raised]

InitArchive ==
    /\ env = ValidEnv
    /\ jobs = <<>>
    /\ payment_instances = <<>>
    /\ start = [j \in JobIds |-> Starter("unused", None)]
    /\ handlers = EmptyBag
    /\ queries = EmptyBag
    /\ nqueries = 0
    /\ resp = NoResponse
    /\ createCount = [j \in JobIds |-> 0]
    /\ delivered = [j \in JobIds |-> 0]
    /\ execCount = [j \in JobIds |-> 0]
    /\ finalizeCount = [j \in JobIds |-> 0]
    /\ stopCount = [j \in JobIds |-> 0]
    /\ now = 0

\* echo_agent_with_payments.py:234-258  start_job up to the await of
\* create_payment_request
ArchStartJob(j, input_data) ==
    /\ FreshJobId(j)
    /\ start' = [start EXCEPT ![j] = Starter("creating", Some(input_data))]
    /\ createCount' = [createCount EXCEPT ![j] = @ + 1]
    /\ resp' = NoResponse
    /\ UNCHANGED <<env, now, jobs, payment_instances, handlers, queries, nqueries,
                   delivered, execCount, finalizeCount, stopCount>>

\* echo_agent_with_payments.py:258-283  the record and the Payment object are
\* stored; the coroutine suspends in start_status_monitoring
ArchCreateReturns(j, t) ==
    /\ start[j].pc = "creating"
    /\ t \in ClockReadings
    /\ jobs' = Put(jobs, j,
                   [job_id |-> j,
                    payment_id |-> PaymentIdOf(j),
                    status |-> "awaiting_payment",
                    payment_status |-> "pending",
                    input_data |-> start[j].input_data[1],
                    result |-> None,
                    created_at |-> now,
                    updated_at |-> t,
                    identifier_from_purchaser |-> PurchaserIdOf(j),
                    error |-> None])
    /\ now' = t
    /\ payment_instances' =
           Put(payment_instances, j,
               [Payment(env.AGENT_IDENTIFIER, PurchaserIdOf(j), start[j].input_data[1])
                   EXCEPT !.payment_ids = {PaymentIdOf(j)}])
    /\ start' = [start EXCEPT ![j] = Starter("monitoring", None)]
    /\ resp' = NoResponse
    /\ UNCHANGED <<env, handlers, queries, nqueries, createCount, delivered, execCount,
                   finalizeCount, stopCount>>

\* echo_agent_with_payments.py:258, 283, 300-304  create_payment_request or
\* start_status_monitoring raised: 500, what was stored stays
ArchStartRaises(j) ==
    /\ start[j].pc \in {"creating", "monitoring"}
    /\ start' = [start EXCEPT ![j] = Starter("done", None)]
    /\ resp' = StartError(HTTPException("500", "Failed to start job"), j)
    /\ UNCHANGED <<env, now, jobs, payment_instances, handlers, queries, nqueries,
                   createCount, delivered, execCount, finalizeCount, stopCount>>

\* echo_agent_with_payments.py:283-298  start_status_monitoring returned
ArchMonitoringReturns(j) ==
    /\ start[j].pc = "monitoring"
    /\ start' = [start EXCEPT ![j] = Starter("done", None)]
    /\ resp' = StartResponse("200", j)
    /\ UNCHANGED <<env, now, jobs, payment_instances, handlers, queries, nqueries,
                   createCount, delivered, execCount, finalizeCount, stopCount>>

\* echo_agent_with_payments.py:178-186  the except branch of
\* handle_payment_status; jobs_db[job_id] raises KeyError when the record is
\* gone, and that exception leaves the coroutine
ArchExcept(j) ==
    IF j \in DOMAIN jobs
    THEN /\ jobs' = [jobs EXCEPT ![j].status = "failed", ![j].error = Some(str("e"))]
         /\ StopAndDiscard(j)
         /\ resp' = CallbackEnded(j, None)
    ELSE /\ UNCHANGED <<jobs, payment_instances, stopCount>>
         /\ resp' = CallbackEnded(j, Some("KeyError"))

\* echo_agent_with_payments.py:167-176  the end of the try block; the
\* KeyError of a record that is gone is caught by the except branch
ArchTryEnd(j, result, t) ==
    IF j \in DOMAIN jobs
    THEN /\ t \in ClockReadings
         /\ jobs' = [jobs EXCEPT ![j].status = "completed",
                                 ![j].payment_status = "completed",
                                 ![j].result = Some(result),
                                 ![j].updated_at = t]
         /\ now' = t
         /\ StopAndDiscard(j)
         /\ resp' = CallbackEnded(j, None)
    ELSE /\ t = now
         /\ UNCHANGED now
         /\ ArchExcept(j)

\* echo_agent_with_payments.py:149-159  payment_callback runs
\* handle_payment_status up to the await of execute_echo_task
ArchDeliverCallback(j) ==
    /\ j \in DOMAIN jobs
    /\ Deliveries < MaxDeliveries
    /\ jobs' = [jobs EXCEPT ![j].status = "running"]
    /\ handlers' = handlers (+) SetToBag({Handler(j, "executing", Some(jobs[j].input_data), None)})
    /\ delivered' = [delivered EXCEPT ![j] = @ + 1]
    /\ execCount' = [execCount EXCEPT ![j] = @ + 1]
    /\ resp' = NoResponse
    /\ UNCHANGED <<env, now, payment_instances, start, queries, nqueries, finalizeCount,
                   stopCount, createCount>>

\* echo_agent_with_payments.py:159-186  execute_echo_task returned or raised
ArchExecutorResumes(c, t) ==
    LET j == c.job IN
    /\ c \in Suspended("executing")
    /\ IF EchoTaskRaises(c.input_data[1])
       THEN /\ t = now
            /\ handlers' = handlers (-) SetToBag({c})
            /\ ArchExcept(j)
            /\ UNCHANGED <<now, finalizeCount>>
       ELSE IF j \in DOMAIN payment_instances
       THEN /\ t = now
            /\ handlers' = (handlers (-) SetToBag({c}))
                   (+) SetToBag({Handler(j, "finalizing", None, Some(execute_echo_task(c.input_data[1])))})
            /\ finalizeCount' = [finalizeCount EXCEPT ![j] = @ + 1]
            /\ resp' = NoResponse
            /\ UNCHANGED <<now, jobs, payment_instances, stopCount>>
       ELSE /\ handlers' = handlers (-) SetToBag({c})
            /\ ArchTryEnd(j, execute_echo_task(c.input_data[1]), t)
            /\ UNCHANGED finalizeCount
    /\ UNCHANGED <<env, start, queries, nqueries, delivered, execCount, createCount>>

\* echo_agent_with_payments.py:164-176  complete_payment returned
ArchFinalizeReturns(c, t) ==
    /\ c \in Suspended("finalizing")
    /\ handlers' = handlers (-) SetToBag({c})
    /\ ArchTryEnd(c.job, c.result[1], t)
    /\ UNCHANGED <<env, start, queries, nqueries, delivered, execCount, finalizeCount,
                   createCount>>

\* echo_agent_with_payments.py:164, 178-186  complete_payment raised
ArchFinalizeRaises(c) ==
    /\ c \in Suspended("finalizing")
    /\ handlers' = handlers (-) SetToBag({c})
    /\ ArchExcept(c.job)
    /\ UNCHANGED <<env, now, start, queries, nqueries, delivered, execCount, finalizeCount,
                   createCount>>

\* echo_agent_with_payments.py:395-430  get_status
ArchGetStatus(j) ==
    /\ nqueries < MaxQueries
    /\ nqueries' = nqueries + 1
    /\ resp' = IF j \notin DOMAIN jobs
               THEN [op |-> "status", code |-> "404", job_id |-> j]
               ELSE [op |-> "status", code |-> "200", job_id |-> jobs[j].job_id,
                     status |-> jobs[j].status, payment_status |-> jobs[j].payment_status,
                     result |-> jobs[j].result]
    /\ UNCHANGED <<env, now, jobs, payment_instances, start, handlers, queries,
                   createCount, delivered, execCount, finalizeCount, stopCount>>

\* echo_agent_with_payments.py:538-550  delete_job
ArchDeleteJob(j) ==
    /\ IF j \in DOMAIN jobs
       THEN /\ StopAndDiscard(j)
            /\ jobs' = Del(jobs, j)
            /\ resp' = [op |-> "delete_job", code |-> "200", job_id |-> j]
       ELSE /\ resp # [op |-> "delete_job", code |-> "404", job_id |-> j]
            /\ resp' = [op |-> "delete_job", code |-> "404", job_id |-> j]
            /\ UNCHANGED <<jobs, payment_instances, stopCount>>
    /\ UNCHANGED <<env, now, start, handlers, queries, nqueries,
                   createCount, delivered, execCount, finalizeCount>>

NextArchive ==
    \/ \E j \in JobIds, input_data \in ArchInputs : ArchStartJob(j, input_data)
    \/ \E j \in JobIds, t \in 0..MaxTime : ArchCreateReturns(j, t)
    \/ \E j \in JobIds : ArchStartRaises(j)
    \/ \E j \in JobIds : ArchMonitoringReturns(j)
    \/ \E j \in JobIds : ArchDeliverCallback(j)
    \/ \E c \in BagToSet(handlers), t \in 0..MaxTime : ArchExecutorResumes(c, t)
    \/ \E c \in BagToSet(handlers), t \in 0..MaxTime : ArchFinalizeReturns(c, t)
    \/ \E c \in BagToSet(handlers) : ArchFinalizeRaises(c)
    \/ \E j \in JobIds : ArchGetStatus(j)
    \/ \E j \in JobIds : ArchDeleteJob(j)
    \/ Tick

SpecArchive == InitArchive /\ [][NextArchive]_vars

\* ------------------------------------------------------------------ agentic_service.py alone
\* the input dictionaries the executors are applied to: no input_string, or
\* an input_string of up to MaxTextLen characters
TextAlphabet == {"a", "b", " "}
RECURSIVE Texts(_)
Texts(n) ==
    IF n = 0 THEN {<<>>}
    ELSE Texts(n - 1) \cup {Append(t, c) : t \in Texts(n - 1), c \in TextAlphabet}
ServiceInputs ==
    {[input_string |-> t] : t \in Texts(MaxTextLen)} \cup {[other_field |-> <<"a", "b">>]}

\* agentic_service.py:95, 115  the fixed texts of CrewAIService.execute_task
NoTextProvided == <<"N", "o", " ", "t", "e", "x", "t", " ", "p", "r", "o", "v", "i", "d", "e", "d", " ", "f", "o", "r", " ", "s", "u", "m", "m", "a", "r", "i", "z", "a", "t", "i", "o", "n", ".">>
ErrorDuringSummarization == <<"E", "r", "r", "o", "r", " ", "d", "u", "r", "i", "n", "g", " ", "s", "u", "m", "m", "a", "r", "i", "z", "a", "t", "i", "o", "n", ":", " ">>

\* what MyCrew(...) and crew.kickoff(...) do: kickoff returns a text, or one of
\* the two raises
CrewOutcomes ==
    {[kind |-> "returns", at |-> "kickoff", text |-> <<" ", "s", "u", "m", " ">>],
     [kind |-> "raises", at |-> "MyCrew", text |-> <<"n", "o", " ", "k", "e", "y">>],
     [kind |-> "raises", at |-> "kickoff", text |-> <<"r", "a", "t", "e">>]}

\* agentic_service.py:79-128  CrewAIService.execute_task
CrewExecuteTask(input_data, outcome) ==
    LET text == GetInputString(input_data)
        summary == IF Strip(text) = <<>> THEN NoTextProvided
                   ELSE IF outcome.kind = "returns" THEN Strip(outcome.text)
                   ELSE ErrorDuringSummarization \o outcome.text
    IN  ServiceResult(text, summary)

\* a job whose payment_callback has just been delivered: the handler is
\* suspended in the executor with the job's input_data
InitService ==
    /\ env = ValidEnv
    /\ \E d \in ServiceInputs :
          /\ jobs = Put(<<>>, 1, [NewJobRecord(1, d) EXCEPT !.status = "running"])
          /\ payment_instances =
                 Put(<<>>, 1, [Payment(Strip(env.AGENT_IDENTIFIER), PurchaserIdOf(1), d)
                                  EXCEPT !.payment_ids = {PaymentIdOf(1)}])
          /\ handlers = SetToBag({Handler(1, "executing", Some(d), None)})
    /\ start = [j \in JobIds |-> Starter(IF j = 1 THEN "done" ELSE "unused", None)]
    /\ queries = EmptyBag
    /\ nqueries = 0
    /\ resp = NoResponse
    /\ createCount = [j \in JobIds |-> IF j = 1 THEN 1 ELSE 0]
    /\ delivered = [j \in JobIds |-> IF j = 1 THEN 1 ELSE 0]
    /\ execCount = [j \in JobIds |-> IF j = 1 THEN 1 ELSE 0]
    /\ finalizeCount = [j \in JobIds |-> 0]
    /\ stopCount = [j \in JobIds |-> 0]
    /\ now = 0

\* mutant: an exception of the crew leaves execute_task and fails the job
CrewExecutorFails(c, outcome) ==
    /\ c \in Suspended("executing")
    /\ c.job \in DOMAIN payment_instances
    /\ handlers' = handlers (-) SetToBag({c})
    /\ FailJob(c.job, "e")
    /\ resp' = NoResponse
    /\ UNCHANGED <<env, now, start, queries, nqueries, delivered, execCount, finalizeCount,
                   createCount>>

\* main.py:319-325 with the executor of get_agentic_service():
\* CrewAIService.execute_task returned; complete_payment is awaited
CrewExecutorReturns(c, outcome) ==
    /\ c \in Suspended("executing")
    /\ c.job \in DOMAIN payment_instances
    /\ handlers' = (handlers (-) SetToBag({c}))
           (+) SetToBag({Handler(c.job, "finalizing", None,
                                 Some(CrewExecuteTask(c.input_data[1], outcome)))})
    /\ finalizeCount' = [finalizeCount EXCEPT ![c.job] = @ + 1]
    /\ resp' = NoResponse
    /\ UNCHANGED <<env, now, jobs, payment_instances, stopCount, start, queries, nqueries,
                   delivered, execCount, createCount>>

NextService ==
    \/ \E c \in BagToSet(handlers) : ExecutorReturns(c)
    \/ \E c \in BagToSet(handlers), outcome \in CrewOutcomes : CrewExecutorReturns(c, outcome)
    \/ \E c \in BagToSet(handlers) : FinalizeReturns(c)
    \/ \E c \in BagToSet(handlers) : FinalizeRaises(c)

SpecService == InitService /\ [][NextService]_vars

\* the service with an adapter whose stop_status_monitoring may raise
NextTeardown ==
    \/ Next
    \/ \E c \in BagToSet(handlers) : HandlerFailsStopRaises(c)
    \/ \E c \in BagToSet(handlers), again \in BOOLEAN : FinalizeReturnsStopRaises(c, again)

\* a suspended handle_payment_status coroutine resumes: the call it awaits
\* returns or raises
HandlerResumes ==
    \E c \in BagToSet(handlers) :
        \/ ExecutorReturns(c) \/ ExecutorRaises(c)
        \/ FinalizeReturns(c) \/ FinalizeRaises(c)
        \/ HandlerFailsStopRaises(c)
        \/ \E again \in BOOLEAN : FinalizeReturnsStopRaises(c, again)

\* ... under the assumption that every awaited call returns or raises
FairSpec == Init /\ [][NextTeardown]_vars /\ WF_vars(HandlerResumes)

\* ------------------------------------------------------------------ properties
Terminal == {"completed", "failed"}

\* one step of awaiting_payment -> running -> {completed | failed}, or no move
Forward(a, b) ==
    \/ a = b
    \/ a = "awaiting_payment" /\ b = "running"
    \/ a = "running" /\ b \in Terminal

\* C1: a job's status only moves forward along awaiting_payment -> running ->
\* {completed | failed}: no step skips running, returns to an earlier state or
\* leaves completed or failed, whatever callbacks and queries arrive.
C1_StatusMovesForward ==
    [][\A j \in DOMAIN jobs : Forward(jobs[j].status, jobs'[j].status)]_vars

\* C2: payment gating: while no payment-confirmation callback has been
\* delivered for a job, its status is awaiting_payment and the executor has not
\* been invoked for it, whatever start_job calls and status queries were made.
C2_PaymentGating ==
    \A j \in DOMAIN jobs :
        delivered[j] = 0 => jobs[j].status = "awaiting_payment" /\ execCount[j] = 0

\* a job that was queried and is still gated
C2_Witness ==
    \E j \in DOMAIN jobs :
        /\ delivered[j] = 0
        /\ jobs[j].status = "awaiting_payment"
        /\ resp = StatusResponse(jobs, j)
        /\ start[j].pc = "done"

\* C3: the Work Executor is invoked at most once per job, also when the
\* callback is delivered twice for it.
C3_ExecutorAtMostOnce == \A j \in JobIds : execCount[j] <= 1

\* a callback for job j arrives when j has left awaiting_payment or has no
\* Payment object any more
LateDelivery(j) ==
    /\ delivered'[j] = delivered[j] + 1
    /\ jobs[j].status # "awaiting_payment" \/ j \notin DOMAIN payment_instances

\* C4: a callback delivered for a job that is no longer awaiting_payment (or
\* has no live handle) changes none of status, payment_status and result, and
\* complete_payment is called at most once per job.
C4_LateCallbackIsNoOp ==
    [][/\ \A j \in DOMAIN jobs :
             LateDelivery(j) => /\ jobs'[j].status = jobs[j].status
                                /\ jobs'[j].payment_status = jobs[j].payment_status
                                /\ jobs'[j].result = jobs[j].result
       /\ \A j \in JobIds : finalizeCount'[j] <= 1]_vars

\* C5: result is present exactly when status is completed or failed.
C5_ResultIffTerminal ==
    \A j \in DOMAIN jobs : (jobs[j].result # None) <=> (jobs[j].status \in Terminal)

C7_HandleWhileNotTerminal ==
    \A j \in DOMAIN jobs :
        jobs[j].status \notin Terminal => j \in DOMAIN payment_instances

\* C8: when the executor raises, the job ends failed with an error description
\* as its result and complete_payment has never been called for it.
C8_ExecutorFailure ==
    [][\A c \in BagToSet(handlers) :
          ExecutorRaises(c) => /\ jobs'[c.job].status = "failed"
                               /\ jobs'[c.job].result # None
                               /\ finalizeCount'[c.job] = 0]_vars

olleH == <<"o", "l", "l", "e", "H">>

\* the job was started with input_string = "Hello" and its callback came once
HelloOnce(j) ==
    /\ j \in DOMAIN jobs
    /\ jobs[j].input_data = [input_string |-> Hello]
    /\ delivered[j] = 1

\* the callback of job j has run to its end without entering the except
\* branch: the executor and complete_payment both returned
HandlerSucceeded(j) ==
    /\ finalizeCount[j] = 1
    /\ \A c \in BagToSet(handlers) : c.job # j
    /\ jobs[j].error = None

\* C9: happy path: a job started with "Hello" whose callback is delivered once
\* and succeeds ends with status = completed and a result whose raw value is
\* "olleH"; its payment_status is completed when the handler ends (no status
\* query has refreshed it), and a status query for it returns completed and
\* "olleH".
C9_HappyPath ==
    \A j \in JobIds :
        HelloOnce(j) /\ HandlerSucceeded(j) =>
            /\ jobs[j].status = "completed"
            /\ jobs[j].result # None /\ jobs[j].result[1].raw = olleH
            /\ nqueries = 0 => jobs[j].payment_status = "completed"
            /\ (resp.op = "status" /\ resp.job_id = j) =>
                   resp.status = "completed" /\ resp.result = Some(olleH)

\* a status query answered for such a job after it completed
C9_Witness ==
    \E j \in JobIds :
        /\ HelloOnce(j) /\ HandlerSucceeded(j)
        /\ resp = [op |-> "status", code |-> "200", job_id |-> j, status |-> "completed",
                   payment_status |-> "completed", result |-> Some(olleH)]

\* C10: whenever a job's status is completed, its payment_status is completed.
C10_CompletedImpliesPaid ==
    \A j \in DOMAIN jobs :
        jobs[j].status = "completed" => jobs[j].payment_status = "completed"

\* C11: no status response reports status = running together with
\* payment_status = pending.
C11_RunningNeverPending ==
    (resp.op = "status" /\ resp.code = "200") =>
        ~(resp.status = "running" /\ resp.payment_status = "pending")

\* C12: a status query for a job_id that is not in the store answers 404 at
\* once and leaves jobs and payment_instances as they were.
C12_UnknownJobNotFound ==
    [][\A j \in JobIds :
          (GetStatus(j) /\ j \notin DOMAIN jobs) =>
              /\ resp'.op = "status" /\ resp'.code = "404" /\ resp'.job_id = j
              /\ jobs' = jobs
              /\ payment_instances' = payment_instances
              /\ queries' = queries]_vars

\* a 404 was answered for an unknown id while another job is in the store
C12_Witness ==
    /\ resp.op = "status" /\ resp.code = "404"
    /\ resp.job_id \notin DOMAIN jobs
    /\ jobs # <<>>

\* the record of job k with its payment_status blanked
ExceptPaymentStatus(jb, k) == [jb[k] EXCEPT !.payment_status = "-"]

\* C13: a step of a status query (its start, or its resumption after the
\* adapter call) changes no job's status or result and adds or removes no
\* record; payment_status is the only field it may change.
C13_QueryWritesOnlyPaymentStatus ==
    [][\A j \in JobIds :
          (GetStatus(j) \/ \E o \in CheckOutcomes : RefreshReturns(j, o)) =>
              /\ DOMAIN jobs' = DOMAIN jobs
              /\ \A k \in DOMAIN jobs :
                    ExceptPaymentStatus(jobs', k) = ExceptPaymentStatus(jobs, k)
              /\ payment_instances' = payment_instances]_vars

\* a refresh has rewritten payment_status of a running job
C13_Witness ==
    \E j \in DOMAIN jobs :
        /\ resp = StatusResponse(jobs, j)
        /\ jobs[j].status = "running"
        /\ jobs[j].payment_status = "unknown"

RawOf(result) == IF result = None THEN None ELSE Some(result[1].raw)

\* C15: when the adapter call of a status query raises, the query is still
\* answered with 200: the job's stored status and result, and payment_status
\* unknown or error.
C15_AdapterErrorDowngrades ==
    [][\A j \in JobIds : \A o \in AdapterErrors :
          RefreshReturns(j, o) =>
              /\ resp'.op = "status" /\ resp'.code = "200" /\ resp'.job_id = j
              /\ resp'.status = jobs[j].status
              /\ resp'.result = RawOf(jobs[j].result)
              /\ resp'.payment_status \in {"unknown", "error"}]_vars

\* a failed adapter call answered for a job that had completed meanwhile
C15_Witness ==
    \E j \in DOMAIN jobs :
        /\ resp = StatusResponse(jobs, j)
        /\ resp.status = "completed" /\ resp.result = Some(olleH)
        /\ resp.payment_status = "error"

\* C16: when the adapter call of a status query for a job awaiting payment
\* times out, the answer is awaiting_payment / unknown / no result.
C16_TimeoutGivesUnknown ==
    [][\A j \in JobIds :
          (RefreshReturns(j, "TimeoutError") /\ jobs[j].status = "awaiting_payment") =>
              /\ resp'.op = "status" /\ resp'.code = "200"
              /\ resp'.status = "awaiting_payment"
              /\ resp'.payment_status = "unknown"
              /\ resp'.result = None]_vars

\* C17: when the adapter call of a status query returns, the answer carries
\* the adapter's status as payment_status with the job's stored status and
\* result; a job just created whose adapter says pending is reported as
\* awaiting_payment / pending / no result.
C17_RefreshReportsAdapterStatus ==
    [][\A j \in JobIds : \A o \in AdapterStatuses :
          RefreshReturns(j, o) =>
              /\ resp'.op = "status" /\ resp'.code = "200" /\ resp'.job_id = j
              /\ resp'.payment_status = o
              /\ resp'.status = jobs[j].status
              /\ resp'.result = RawOf(jobs[j].result)
              /\ (delivered[j] = 0 /\ o = "pending") =>
                     resp' = [op |-> "status", code |-> "200", job_id |-> j,
                              status |-> "awaiting_payment",
                              payment_status |-> "pending", result |-> None]]_vars

\* a job just created, queried, with the adapter saying pending
C17_Witness ==
    \E j \in DOMAIN jobs :
        /\ delivered[j] = 0 /\ j \in DOMAIN payment_instances
        /\ resp = [op |-> "status", code |-> "200", job_id |-> j,
                   status |-> "awaiting_payment",
                   payment_status |-> "pending", result |-> None]

\* a step of a handle_payment_status coroutine of job j
HandlerStep(j) ==
    \/ DeliverCallback(j)
    \/ \E c \in BagToSet(handlers) :
          /\ c.job = j
          /\ ExecutorReturns(c) \/ ExecutorRaises(c) \/ FinalizeReturns(c) \/ FinalizeRaises(c)

\* C18: a step of the callback of one job leaves every other job's record,
\* Payment object and stop count as they were.
C18_JobsIndependent ==
    [][\A j \in JobIds :
          HandlerStep(j) =>
              \A k \in JobIds \ {j} :
                  /\ (k \in DOMAIN jobs) => (k \in DOMAIN jobs' /\ jobs'[k] = jobs[k])
                  /\ (k \in DOMAIN payment_instances) <=> (k \in DOMAIN payment_instances')
                  /\ stopCount'[k] = stopCount[k]]_vars

\* the second job ended while the first, created before it, still awaits payment
C18_Witness ==
    /\ DOMAIN jobs = {1, 2}
    /\ jobs[2].status \in Terminal
    /\ jobs[1] = NewJobRecord(1, [input_string |-> Hello])
    /\ 1 \in DOMAIN payment_instances /\ 2 \notin DOMAIN payment_instances
    /\ delivered[1] = 0

\* one of the four required settings is missing or malformed
Misconfigured == ConfigurationError # None \/ env.SELLER_VKEY = <<>>

\* C19: with a required setting missing or malformed, every start_job ends
\* with the configuration error and creates nothing: the job store and the
\* registry stay empty and no payment request is made.
C19_ConfigErrorCreatesNothing ==
    Misconfigured =>
        /\ jobs = <<>>
        /\ payment_instances = <<>>
        /\ \A j \in JobIds : createCount[j] = 0
        /\ resp.op = "start_job" =>
               resp.code = "500" /\ resp.detail = "Server configuration error"

\* C20: when create_payment_request or start_status_monitoring raises,
\* start_job answers with an error and the job has no record in the store and
\* no Payment object in the registry.
C20_AdapterFailurePersistsNothing ==
    [][\A j \in JobIds : \A e \in AdapterExceptions :
          (CreateRaises(j, e) \/ MonitoringRaises(j, e)) =>
              /\ resp'.op = "start_job" /\ resp'.code # "200"
              /\ j \notin DOMAIN jobs'
              /\ j \notin DOMAIN payment_instances']_vars

\* a start_job step that creates nothing: no record, no Payment object, no
\* payment request
CreatesNothing ==
    /\ jobs' = jobs
    /\ payment_instances' = payment_instances
    /\ createCount' = createCount

\* a request without an input_string entry
NoInputString == {d \in InputDicts : "input_string" \notin DOMAIN d}

\* C21 as stated: every start_job request without an input_string entry is
\* answered 400 and creates nothing.
C21_MissingInputIs400 ==
    [][\A j \in JobIds : \A d \in NoInputString :
          StartJob(j, d) =>
              /\ resp'.op = "start_job" /\ resp'.code = "400"
              /\ CreatesNothing]_vars

\* C21 amended: a start_job request without an input_string entry creates
\* nothing and is answered with an error: 400 Bad Request when the agent
\* identifier, the payment service URL and the API key are configured, and the
\* 500 configuration error when one of them is not (they are checked first).
C21_MissingInputRejected ==
    [][\A j \in JobIds : \A d \in NoInputString :
          StartJob(j, d) =>
              /\ resp'.op = "start_job" /\ resp'.job_id = j
              /\ IF ConfigurationError = None
                 THEN resp'.code = "400" /\ resp'.detail = "Bad Request"
                 ELSE resp'.code = "500" /\ resp'.detail = "Server configuration error"
              /\ start'[j].pc = "done"
              /\ CreatesNothing]_vars

\* a request without input_string was answered 400 while another job is in
\* the store
C21_Witness ==
    /\ resp.op = "start_job" /\ resp.code = "400" /\ resp.detail = "Bad Request"
    /\ resp.job_id \notin DOMAIN jobs
    /\ createCount[resp.job_id] = 0
    /\ jobs # <<>>

\* every setting start_job reads is present and well-formed
ValidConfiguration ==
    /\ ConfigurationError = None
    /\ IsIntLiteral(env.PAYMENT_AMOUNT)
    /\ env.SELLER_VKEY # <<>>

WithInputString == {d \in InputDicts : "input_string" \in DOMAIN d}

C23_EventuallyTerminal ==
    \A j \in JobIds :
        (delivered[j] > 0) ~> (j \in DOMAIN jobs /\ jobs[j].status \in Terminal)

\* a job that ended failed although stop_status_monitoring raised twice for it
C23_Witness ==
    \E j \in DOMAIN jobs :
        /\ jobs[j].status = "failed"
        /\ stopCount[j] = 2
        /\ j \in DOMAIN payment_instances
        /\ \A c \in BagToSet(handlers) : c.job # j

\* C24: when complete_payment raises, the job whose executor succeeded still
\* ends completed with its result stored.
C24_FinalizeFailureKeepsCompleted ==
    [][\A c \in BagToSet(handlers) :
          FinalizeRaises(c) =>
              /\ jobs'[c.job].status = "completed"
              /\ jobs'[c.job].result = c.result]_vars

\* the call a handler awaits returns or raises
HandlerContinues(c) ==
    ExecutorReturns(c) \/ ExecutorRaises(c) \/ FinalizeReturns(c) \/ FinalizeRaises(c)

\* C25: a handler that reaches its cleanup after the Payment object of its job
\* was discarded ends normally, with the job in a terminal status, and calls
\* stop_status_monitoring on nothing: the stop count and the registry stay as
\* they are.
C25_SecondCleanupIsNoOp ==
    [][\A c \in BagToSet(handlers) :
          (HandlerContinues(c) /\ c.job \notin DOMAIN payment_instances) =>
              /\ stopCount' = stopCount
              /\ payment_instances' = payment_instances
              /\ jobs'[c.job].status \in Terminal
              /\ handlers' = handlers (-) SetToBag({c})]_vars

\* both callbacks of one job ran to their end and monitoring was stopped once
C25_Witness ==
    \E j \in DOMAIN jobs :
        /\ delivered[j] = 2
        /\ stopCount[j] = 1
        /\ j \notin DOMAIN payment_instances
        /\ jobs[j].status \in Terminal
        /\ \A c \in BagToSet(handlers) : c.job # j

\* C26: the first callback of a job finds its record, still awaiting payment,
\* and its Payment object, after start_job registered both; a job is terminal
\* only after a callback; and while start_status_monitoring is in progress the
\* record is in the store, where a status query finds it.
C26_CreateCallbackTerminal ==
    [][/\ \A j \in JobIds :
             (DeliverCallback(j) /\ delivered[j] = 0) =>
                 /\ j \in DOMAIN payment_instances
                 /\ jobs[j].status = "awaiting_payment"
                 /\ start[j].pc \in {"monitoring", "done"}
                 /\ createCount[j] = 1
       /\ \A j \in DOMAIN jobs' :
             jobs'[j].status \in Terminal \cup {"running"} => delivered'[j] > 0
       /\ \A j \in JobIds :
             start'[j].pc = "monitoring" =>
                 /\ j \in DOMAIN jobs'
                 /\ resp'.op = "status" /\ resp'.job_id = j => resp'.code = "200"]_vars

\* a status query answered while start_status_monitoring is still in progress
C26_Witness ==
    /\ resp.op = "status"
    /\ resp.code = "200"
    /\ start[resp.job_id].pc = "monitoring"
    /\ resp.status = "awaiting_payment"

\* C27: a job_id that is in jobs is in jobs after every step.
C27_RecordNeverRemoved ==
    [][DOMAIN jobs \subseteq DOMAIN jobs']_vars

\* a status query answered for a job that had failed
C27_Witness ==
    /\ resp.op = "status"
    /\ resp.code = "200"
    /\ resp.status = "failed"
    /\ jobs[resp.job_id].error # None

\* C28: the payment_status of every job is one of pending, confirmed,
\* completed, unknown, error.
C28_PaymentStatusInVocabulary ==
    \A j \in DOMAIN jobs :
        jobs[j].payment_status \in {"pending", "confirmed", "completed", "unknown", "error"}

\* C29: once a record exists its payment_id, input_data and
\* identifier_from_purchaser are the same after every step.
C29_IdentityFieldsFrozen ==
    [][\A j \in DOMAIN jobs :
          /\ j \in DOMAIN jobs'
          /\ jobs'[j].payment_id = jobs[j].payment_id
          /\ jobs'[j].input_data = jobs[j].input_data
          /\ jobs'[j].identifier_from_purchaser = jobs[j].identifier_from_purchaser]_vars

\* a completed job, queried on the way, with the fields start_job gave it
C29_Witness ==
    \E j \in DOMAIN jobs :
        /\ jobs[j].status = "completed"
        /\ nqueries > 0
        /\ jobs[j].payment_status # "completed"
        /\ jobs[j].payment_id = PaymentIdOf(j)
        /\ jobs[j].input_data = [input_string |-> Hello]
        /\ jobs[j].identifier_from_purchaser = PurchaserIdOf(j)

\* the part of s after the last ch, and the part before the first ch
RECURSIVE AfterLast(_, _)
AfterLast(s, ch) ==
    IF \E i \in 1..Len(s) : s[i] = ch
    THEN AfterLast(SubSeq(s, (CHOOSE i \in 1..Len(s) : s[i] = ch) + 1, Len(s)), ch)
    ELSE s
RECURSIVE BeforeFirst(_, _)
BeforeFirst(s, ch) ==
    IF s = <<>> \/ Head(s) = ch THEN <<>> ELSE <<Head(s)>> \o BeforeFirst(Tail(s), ch)

\* the host of an http(s) url: in the authority that follows the two slashes,
\* what stands after the user information and before the port; an authority
\* with an unclosed bracket has no host
HostPart(url) ==
    LET authority == BeforeFirst(BeforeFirst(AfterScheme(url), "/"), "?")
    IN  IF \E i \in 1..Len(authority) : authority[i] = "["
        THEN <<>>
        ELSE BeforeFirst(AfterLast(authority, "@"), ":")

\* C30: validate_url(url, name) returns the empty string exactly when url is
\* not empty, starts with http:// or https:// and has a non-empty host;
\* otherwise the message says 'is not set' for an empty url, 'must start with'
\* for another scheme or none, and 'is not a valid URL format' for a scheme
\* with no host.
C30_ValidateUrl ==
    resp.op = "validate_url" =>
        LET url == resp.url
            scheme == StartsWith(url, http) \/ StartsWith(url, https)
        IN  /\ resp.result = <<>> <=> (url # <<>> /\ scheme /\ HostPart(url) # <<>>)
            /\ url = <<>> => resp.result = <<resp.name, "is not set">>
            /\ (url # <<>> /\ ~scheme) =>
                   resp.result = <<resp.name, "must start with 'https://' or 'http://'", url>>
            /\ (scheme /\ HostPart(url) = <<>>) =>
                   resp.result = <<resp.name, "is not a valid URL format", url>>

\* C31: a job is completed only after complete_payment was called and returned
\* for it, and that happened once: a complete_payment call that returns is the
\* first of its job to do so; and the step that makes the job completed sets
\* status, payment_status and result together, to the result that was passed
\* to complete_payment.
C31_FinalizedOnceBeforeCompleted ==
    [][/\ \A c \in BagToSet(handlers) :
             FinalizeReturns(c) =>
                 /\ jobs[c.job].result = None
                 /\ finalizeCount[c.job] = 1
                 /\ jobs'[c.job].status = "completed"
                 /\ jobs'[c.job].payment_status = "completed"
                 /\ jobs'[c.job].result = c.result
       /\ \A j \in DOMAIN jobs' :
             jobs'[j].status = "completed" =>
                 /\ finalizeCount'[j] = 1
                 /\ jobs'[j].result # None
                 /\ jobs[j].status # "completed" =>
                        \E c \in BagToSet(handlers) : c.job = j /\ FinalizeReturns(c)]_vars

\* a setting start_job needs is missing or malformed
SettingsBroken ==
    \/ ConfigurationError # None
    \/ ~IsIntLiteral(env.PAYMENT_AMOUNT)
    \/ env.SELLER_VKEY = <<>>

\* C32: an error response of start_job names its cause: 500 only for a missing
\* or malformed setting (a non-numeric PAYMENT_AMOUNT included), 400 only for
\* invalid caller input, and 502 for every failure of the adapter while the
\* job is created.
C32_ErrorsClassified ==
    [][\A j \in JobIds :
          /\ \A d \in InputDicts :
                (StartJob(j, d) /\ resp'.op = "start_job") =>
                    /\ resp'.code \in {"400", "500"}
                    /\ resp'.code = "500" => SettingsBroken
                    /\ resp'.code = "400" => "input_string" \notin DOMAIN d
          /\ \A e \in AdapterExceptions :
                (CreateRaises(j, e) \/ MonitoringRaises(j, e)) => resp'.code = "502"
          /\ MonitoringReturns(j) =>
                resp'.code = IF SettingsBroken THEN "500" ELSE "200"]_vars

\* C33: in echo_agent.py a status query on a job that awaits payment makes it
\* completed with result "Echo: " followed by the stored input text, with no
\* payment confirmation; a status query on a completed job changes nothing and
\* answers with the same status and result.
C33_EchoAutoCompletes ==
    [][\A j \in DOMAIN jobs : \A t \in 0..MaxTime :
          EchoGetStatus(j, t) =>
              /\ resp'.code = "200" /\ resp'.job_id = j
              /\ resp'.status = "completed"
              /\ jobs[j].status = "awaiting_payment" =>
                     /\ jobs'[j].status = "completed"
                     /\ jobs'[j].result = Some(<<"E", "c", "h", "o", ":", " ">> \o jobs[j].input_text)
                     /\ resp'.result = jobs'[j].result
                     /\ jobs'[j].input_text = jobs[j].input_text
              /\ jobs[j].status # "awaiting_payment" =>
                     /\ jobs' = jobs
                     /\ resp'.result = jobs[j].result
              /\ \A k \in DOMAIN jobs \ {j} : jobs'[k] = jobs[k]]_vars

\* a status query answered for a job that an earlier query had completed
C33_Witness ==
    /\ resp.op = "status"
    /\ resp.code = "200"
    /\ resp.status = "completed"
    /\ resp.result = Some(<<"E", "c", "h", "o", ":", " ", "h", "i">>)
    /\ jobs[resp.job_id].updated_at < now
    /\ nqueries >= 2

\* the status of job j changes in this step
Transition(j, from, to) ==
    /\ j \in DOMAIN jobs /\ j \in DOMAIN jobs'
    /\ jobs[j].status = from
    /\ jobs'[j].status = to

\* C34: in echo_agent_with_payments.py updated_at becomes later on every
\* status transition of a job (awaiting_payment to running, running to
\* completed, running to failed), and it never becomes earlier.
C34_UpdatedAtAdvances ==
    [][\A j \in JobIds :
          /\ (\/ Transition(j, "awaiting_payment", "running")
              \/ Transition(j, "running", "completed")
              \/ Transition(j, "running", "failed"))
                 => jobs'[j].updated_at > jobs[j].updated_at
          /\ (j \in DOMAIN jobs /\ j \in DOMAIN jobs')
                 => jobs'[j].updated_at >= jobs[j].updated_at]_vars

\* C38: in echo_agent_with_payments.py delete_job removes the record and the
\* Payment object of the job together and stops its monitoring; a callback of
\* the job that resumes afterwards does not store a record again and ends
\* without an exception; and a status query for the job answers 404.
C38_DeleteWhileRunning ==
    [][/\ \A j \in DOMAIN jobs :
             ArchDeleteJob(j) =>
                 /\ j \notin DOMAIN jobs'
                 /\ j \notin DOMAIN payment_instances'
                 /\ stopCount'[j] = stopCount[j] + (IF j \in DOMAIN payment_instances THEN 1 ELSE 0)
       /\ \A j \in JobIds \ DOMAIN jobs :
             /\ start[j].pc # "creating" => j \notin DOMAIN jobs'
             /\ resp'.op = "handle_payment_status" /\ resp'.job_id = j => resp'.raised = None
             /\ ArchGetStatus(j) => resp'.code = "404"]_vars

\* C35: AgenticService.execute_task returns, for the input dictionary of the
\* job, a result whose raw value is input_string read backwards (the empty
\* string when the key is missing) and whose original_text is the input as it
\* came; applied to its own output it gives the original text back; and it
\* returns for every string.
C35_ExecuteTaskReverses ==
    [][\A c \in BagToSet(handlers) :
          ExecutorReturns(c) =>
              LET d == c.input_data[1]
                  text == IF "input_string" \in DOMAIN d THEN d.input_string ELSE <<>>
              IN  \E h \in BagToSet(handlers') :
                      /\ h.pc = "finalizing"
                      /\ h.result # None
                      /\ Len(h.result[1].raw) = Len(text)
                      /\ \A i \in 1..Len(text) : h.result[1].raw[i] = text[Len(text) + 1 - i]
                      /\ h.result[1].original_text = text
                      /\ execute_task([input_string |-> h.result[1].raw]).raw = text]_vars

\* the job completed with the reversal of a text that is not a palindrome
C35_Witness ==
    /\ 1 \in DOMAIN jobs
    /\ jobs[1].status = "completed"
    /\ jobs[1].input_data = [input_string |-> <<"a", "b", " ">>]
    /\ jobs[1].result = Some([original_text |-> <<"a", "b", " ">>,
                              reversed_text |-> <<" ", "b", "a">>,
                              raw |-> <<" ", "b", "a">>])

\* C37: when MyCrew(...) or crew.kickoff(...) raises, CrewAIService.execute_task
\* returns a result whose raw value is "Error during summarization: " and the
\* error text; the handler that called it goes on to complete_payment, and the
\* job ends completed with that result, not failed.
C37_CrewFailureLooksLikeSuccess ==
    [][\A c \in BagToSet(handlers) :
          /\ \A outcome \in CrewOutcomes :
                (/\ CrewExecutorReturns(c, outcome)
                 /\ outcome.kind = "raises"
                 /\ Strip(GetInputString(c.input_data[1])) # <<>>) =>
                    /\ \E h \in BagToSet(handlers') :
                          /\ h.pc = "finalizing"
                          /\ h.result # None
                          /\ h.result[1].raw =
                                 <<"E", "r", "r", "o", "r", " ", "d", "u", "r", "i", "n", "g", " ",
                                   "s", "u", "m", "m", "a", "r", "i", "z", "a", "t", "i", "o", "n",
                                   ":", " ">> \o outcome.text
                    /\ jobs'[c.job].status = "running"
                    /\ jobs'[c.job].error = None
                    /\ finalizeCount'[c.job] = finalizeCount[c.job] + 1
          /\ (FinalizeReturns(c) /\ StartsWith(c.result[1].raw, ErrorDuringSummarization)) =>
                /\ jobs'[c.job].status = "completed"
                /\ jobs'[c.job].payment_status = "completed"
                /\ jobs'[c.job].result = c.result]_vars

\* a job that completed with the error message of a failed crew run as result
C37_Witness ==
    /\ 1 \in DOMAIN jobs
    /\ jobs[1].status = "completed"
    /\ jobs[1].payment_status = "completed"
    /\ jobs[1].error = None
    /\ finalizeCount[1] = 1
    /\ jobs[1].result # None
    /\ StartsWith(jobs[1].result[1].raw, ErrorDuringSummarization)

\* C36: every job_id that has a Payment object in payment_instances has a
\* record in jobs, and that Payment object is the one start_job made for the
\* record: it holds the record's payment id, purchaser identifier and input.
C36_RegistryWithinStore ==
    \A j \in DOMAIN payment_instances :
        /\ j \in DOMAIN jobs
        /\ payment_instances[j].payment_ids = {jobs[j].payment_id}
        /\ payment_instances[j].identifier_from_purchaser = jobs[j].identifier_from_purchaser
        /\ payment_instances[j].input_data = jobs[j].input_data

\* one job completed and lost its Payment object while the other, still
\* awaiting payment, keeps its own
C36_Witness ==
    /\ DOMAIN jobs = {1, 2}
    /\ DOMAIN payment_instances = {2}
    /\ jobs[1].status = "completed"
    /\ jobs[2].status = "awaiting_payment"
    /\ payment_instances[2].payment_ids = {<<"payment", 2>>}

====
